---- MODULE Spec2Model ----
(***************************************************************************)
(* tgcf live mode (src/tgcf/live.py): the forward-state store st.stored    *)
(* and the three event handlers that read and write it.                    *)
(*                                                                         *)
(* A handler invocation is a coroutine.  Every `await` is a suspension     *)
(* point: the code between two awaits runs as one step.  A step of the     *)
(* model resumes a handler from the await it is suspended at, with the     *)
(* awaited call's outcome, and runs it up to the next await (whose call it *)
(* issues) or to its return.                                               *)
(***************************************************************************)
EXTENDS Integers, Sequences, FiniteSets, TLC

VARIABLES
    stored,               \* st.stored: the keys, in insertion order
    heap,                 \* the record objects (dicts), by the key they were created under
    h,                    \* the handler invocations
    nextId,               \* the id of the next new message of the routed chat
    show_forwarded_from,  \* CONFIG.show_forwarded_from
    sequential_updates,   \* CONFIG.live.sequential_updates
    history               \* whether what each invocation did is kept once it has happened

\* ---------------------------------------------------------------- bounds
KEEP_LAST_MANY == 1     \* const.KEEP_LAST_MANY, scaled down
MaxMsgs == 3            \* message ids handed out to new messages / albums
MaxInflight == 2        \* handler invocations that may be suspended at once
MaxAlbum == 2           \* messages in one album

\* ------------------------------------------------------- configuration
\* config.from_to: source chat -> ordered destinations.  "s0" is not routed.
from_to == [c \in {"s1"} |-> <<"d1", "d2">>]
Chats == {"s0", "s1"}
\* CONFIG.live.delete_on_edit, the retract sentinel
delete_on_edit == "DELETE"
\* texts an edited event may carry
EditTexts == {"e", delete_on_edit}

NoneMsg == [chat |-> "None", id |-> 0]
NoKey == <<"None", 0>>
NoTm == [drop |-> TRUE, text |-> "", reply_to |-> 0]

\* storage.EventUid: the identity key of an event, (chat id, message id)
EventUid(chat, id) == <<chat, id>>

\* The handle the transport returns for the copy of source message `id` in
\* destination `d`; ids are distinct for distinct (destination, source).
DestIndex(d) == CHOOSE n \in 1..2 : <<"d1", "d2">>[n] = d
Handle(d, id) == [chat |-> d, id |-> 2 * id + DestIndex(d) - 2]

\* ------------------------------------------------- records (python dicts)
\* A forward record is a dict destination -> handle | None, kept in
\* insertion order as a sequence of <<destination, handle>>.
RecHas(rec, d) == \E n \in 1..Len(rec) : rec[n][1] = d
RecGet(rec, d) ==
    IF RecHas(rec, d)
    THEN rec[CHOOSE n \in 1..Len(rec) : rec[n][1] = d][2]
    ELSE NoneMsg
RecUpdate(rec, d, msg) ==
    IF RecHas(rec, d)
    THEN [n \in 1..Len(rec) |-> IF rec[n][1] = d THEN <<d, msg>> ELSE rec[n]]
    ELSE Append(rec, <<d, msg>>)

\* ------------------------------------------------------------- the calls
\* A call a handler issued: the operation and its arguments and, once it has
\* returned, its answer: `res` for Transform, `msg` (the first handle returned)
\* for a send or a forward.  For Edit and Delete `msg` is the handle acted on.
Call(op, d, msg, text, reply_to, media, captions) ==
    [op |-> op, dest |-> d, msg |-> msg, text |-> text, reply_to |-> reply_to,
     media |-> media, captions |-> captions, res |-> NoTm]
TransformCall(text) == Call("Transform", "", NoneMsg, text, 0, <<>>, <<>>)
SendCall(d, tm) == Call("Send", d, NoneMsg, tm.text, tm.reply_to, <<>>, <<>>)
ForwardCall(d) == Call("Forward", d, NoneMsg, "", 0, <<>>, <<>>)
SendGroupCall(d, media, captions) ==
    Call("SendGroup", d, NoneMsg, "", 0, media, captions)
EditCall(msg, text) == Call("Edit", msg.chat, msg, text, 0, <<>>, <<>>)
DeleteCall(msg) == Call("Delete", msg.chat, msg, "", 0, <<>>, <<>>)
DeleteSourceCall == Call("DeleteSource", "", NoneMsg, "", 0, <<>>, <<>>)

\* What apply_plugins may return for a message with the given text: None
\* (drop), or a message whose text is unchanged, rewritten, or empty.  Under
\* interleaved dispatch the empty text is left out to keep the product of the
\* suspended handlers small.
TransformResults(text) ==
    {NoTm} \cup {[drop |-> FALSE, text |-> t, reply_to |-> 0] :
                   t \in IF sequential_updates THEN {text, "p", ""} ELSE {text, "p"}}

\* What forward_to / send_file may return: the list of the messages sent, cut to
\* its first element, or the empty list (sequential dispatch only, as above).
GroupResults(msg) == IF sequential_updates THEN {<<>>, <<msg>>} ELSE {<<msg>>}

\* ------------------------------------------------------------ the events
NoEvent ==
    [kind |-> "none", chat |-> "", id |-> 0, grouped |-> FALSE, reply_to |-> 0,
     text |-> "", messages |-> <<>>]
\* An album of len messages: message n carries media n and caption "c<n>".
\* (Telegram groups media messages only; media 0 would be a message without.)
Caption(n) == <<"c1", "c2", "c3", "c4">>[n]
AlbumOf(len) == [n \in 1..len |-> [media |-> n, text |-> Caption(n)]]

vars == <<stored, heap, h, nextId, show_forwarded_from, sequential_updates, history>>

Slots == 1..MaxInflight

\* a handler invocation's locals
Idle ==
    [kind |-> "idle", pc |-> "idle", ev |-> NoEvent, exceeding |-> 0, i |-> 0,
     j |-> 0, len0 |-> 0, tm |-> NoTm, ref |-> NoKey, msg |-> NoneMsg, calls |-> <<>>,
     exc |-> "none", overlap |-> FALSE]

InStore(s, key) == \E n \in 1..Len(s) : s[n] = key


\* ------------------------------------------------------ handler plumbing
\* A handler runs on a machine state m = [stored, heap, loc]: the store, the
\* record objects and its own locals.
Dest(m) == from_to[m.loc.ev.chat]
Uid(m) == EventUid(m.loc.ev.chat, m.loc.ev.id)
\* the handler returns; its locals die with it (the event and what it did are kept)
Finish(m) ==
    [m EXCEPT !.loc = [Idle EXCEPT !.pc = "done", !.kind = m.loc.kind, !.ev = m.loc.ev,
                                   !.exceeding = m.loc.exceeding,
                                   !.calls = m.loc.calls, !.overlap = m.loc.overlap]]
\* (mutant) an exception takes the record under construction out of the store
RaiseRollsBack(m, e) ==
    [Finish(m) EXCEPT !.loc.exc = e,
                      !.stored = SelectSeq(@, LAMBDA k : k # Uid(m))]

\* the handler ends with the exception e
Raise(m, e) == [Finish(m) EXCEPT !.loc.exc = e]
\* issue the call and suspend on it
Issue(m, call, pc) == [m EXCEPT !.loc.calls = Append(@, call), !.loc.pc = pc]

\* the call the handler is suspended on has returned tm / the handle msg
Answered(m, tm) == [m EXCEPT !.loc.calls[Len(m.loc.calls)].res = tm]
Returned(m, msg) == [m EXCEPT !.loc.calls[Len(m.loc.calls)].msg = msg]

\* the truth value python gives a handle (None is false) and a dict ({} is false)
Truthy(msg) == msg # NoneMsg
\* st.stored.get(key): the record, or None
Found(m, key) == InStore(m.stored, key)
\* `if <st.stored.get(key)>:` holds for a record that is there and not empty
FoundTruthy(m, key) == Found(m, key) /\ Len(m.heap[key]) > 0

\* (mutant) the cleanup drops every entry over capacity
CleanupAllExceeding(s) ==
    LET exceeding == Len(s) - KEEP_LAST_MANY
    IN  IF exceeding > 0 THEN SubSeq(s, exceeding + 1, Len(s)) ELSE s

\* (mutant) the cleanup waits until the store is two entries over capacity
CleanupLate(s) ==
    LET exceeding == Len(s) - KEEP_LAST_MANY
    IN  IF exceeding > 1 THEN Tail(s) ELSE s

\* lines 31-37: storage cleanup
Cleanup(s) ==
    LET length == Len(s)
        exceeding == length - KEEP_LAST_MANY
    IN  IF exceeding > 0 THEN Tail(s) ELSE s

\* lines 41, 78: st.stored[event_uid] = {}
StoredPut(m) ==
    [m EXCEPT !.stored = IF InStore(@, Uid(m)) THEN @ ELSE Append(@, Uid(m)),
              !.heap = [k \in DOMAIN @ \cup {Uid(m)} |->
                          IF k = Uid(m) THEN <<>> ELSE @[k]]]

\* lines 46, 64, 88, 93: st.stored[event_uid].update({d: msg}); KeyError when
\* the key is no longer in the store
StoredUpdate(m, d, msg) ==
    IF ~InStore(m.stored, Uid(m))
    THEN Raise(m, "KeyError")
    ELSE [m EXCEPT !.heap[Uid(m)] = RecUpdate(@, d, msg)]

\* ------------------------------------- new_message_handler, single message
\* lines 91-93: for d in dest: fwded_msg = await send_message(d, tm)
SendLoop(m, i) ==
    IF i > Len(Dest(m))
    THEN Finish(m)
    ELSE Issue([m EXCEPT !.loc.i = i], SendCall(Dest(m)[i], m.loc.tm), "send")

\* (mutant) the reply target is resolved once, from the first handle recorded
ReplyTargetShared(reply_fwded, d) ==
    IF \E n \in 1..Len(reply_fwded) : Truthy(reply_fwded[n][2])
    THEN reply_fwded[CHOOSE n \in 1..Len(reply_fwded) :
                        /\ Truthy(reply_fwded[n][2])
                        /\ \A k \in 1..(n - 1) : ~Truthy(reply_fwded[k][2])][2].id
    ELSE 0

\* line 86: the reply target for destination d
ReplyTarget(reply_fwded, d) ==
    IF Truthy(RecGet(reply_fwded, d)) THEN RecGet(reply_fwded, d).id ELSE 0

\* lines 84-87: for d in dest: tm.reply_to = ...; await send_message(d, tm)
ReplyLoop(m, i) ==
    IF i > Len(Dest(m))
    THEN Finish(m)
    ELSE LET tm == [m.loc.tm EXCEPT
                      !.reply_to = ReplyTarget(m.heap[m.loc.ref], Dest(m)[i])]
         IN  Issue([m EXCEPT !.loc.i = i, !.loc.tm = tm],
                   SendCall(Dest(m)[i], tm), "send_reply")

\* (mutant) the record is created before the drop is looked at
AfterTransformPutFirst(m, tm) ==
    LET m1 == StoredPut([m EXCEPT !.loc.tm = tm])
        reply_to_uid == EventUid(m.loc.ev.chat, m.loc.ev.reply_to)
    IN  IF tm.drop
        THEN Finish(m1)
        ELSE IF m.loc.ev.reply_to # 0
             THEN IF FoundTruthy(m1, reply_to_uid)
                  THEN ReplyLoop([m1 EXCEPT !.loc.ref = reply_to_uid], 1)
                  ELSE Finish(m1)
             ELSE SendLoop(m1, 1)

\* lines 76-93, entered when `await apply_plugins(message)` returns tm
AfterTransform(m, tm) ==
    IF tm.drop
    THEN Finish(m)
    ELSE LET m1 == StoredPut([m EXCEPT !.loc.tm = tm])
             reply_to_uid == EventUid(m.loc.ev.chat, m.loc.ev.reply_to)
         IN  IF m.loc.ev.reply_to # 0
             THEN IF FoundTruthy(m1, reply_to_uid)
                  THEN ReplyLoop([m1 EXCEPT !.loc.ref = reply_to_uid], 1)
                  ELSE Finish(m1)
             ELSE SendLoop(m1, 1)

\* line 93, then the next destination
AfterSend(m, fwded_msg) ==
    LET m1 == StoredUpdate(m, Dest(m)[m.loc.i], fwded_msg)
    IN  IF m1.loc.exc # "none" THEN m1 ELSE SendLoop(m1, m.loc.i + 1)

\* lines 88-89, then the next destination
AfterReplySend(m, fwded_msg) ==
    LET m1 == StoredUpdate(m, Dest(m)[m.loc.i], fwded_msg)
    IN  IF m1.loc.exc # "none"
        THEN m1
        ELSE ReplyLoop([m1 EXCEPT !.loc.tm.reply_to = 0], m.loc.i + 1)


\* ------------------------------------------------ new_message_handler, album
\* lines 66-67: for message in event.messages: tm = await apply_plugins(message)
AlbumPlugins(m, j) ==
    IF j > Len(m.loc.ev.messages)
    THEN Finish(m)
    ELSE Issue([m EXCEPT !.loc.j = j],
               TransformCall(m.loc.ev.messages[j].text), "album_plugins")

\* lines 69-72: for d in dest: fwded_msg = st.stored[event_uid].get(d);
\* if fwded_msg: await fwded_msg.edit(tm.text)
RECURSIVE AlbumEdits(_, _)
AlbumEdits(m, i) ==
    IF i > Len(Dest(m))
    THEN AlbumPlugins(m, m.loc.j + 1)
    ELSE IF ~InStore(m.stored, Uid(m))
         THEN Raise(m, "KeyError")
         ELSE LET fwded_msg == RecGet(m.heap[Uid(m)], Dest(m)[i])
              IN  IF Truthy(fwded_msg)
                  THEN Issue([m EXCEPT !.loc.i = i],
                             EditCall(fwded_msg, m.loc.tm.text), "album_edit")
                  ELSE AlbumEdits(m, i + 1)

\* line 68, entered when `await apply_plugins(message)` returns tm
AfterAlbumTransform(m, tm) ==
    IF ~tm.drop /\ tm.text # m.loc.ev.messages[m.loc.j].text
    THEN AlbumEdits([m EXCEPT !.loc.tm = tm], 1)
    ELSE AlbumPlugins(m, m.loc.j + 1)

\* lines 44-45: for d in dest: fwded_msgs = await event.forward_to(d)
ForwardLoop(m, i) ==
    IF i > Len(Dest(m))
    THEN AlbumPlugins(m, 1)
    ELSE Issue([m EXCEPT !.loc.i = i], ForwardCall(Dest(m)[i]), "forward")

\* lines 49-54: the media of the album's messages and their captions
RECURSIVE MediaFiles(_)
MediaFiles(messages) ==
    IF messages = <<>> THEN <<>>
    ELSE IF Head(messages).media # 0
         THEN <<Head(messages).media>> \o MediaFiles(Tail(messages))
         ELSE MediaFiles(Tail(messages))
\* (mutant) the captions are collected in reverse
RECURSIVE CaptionsReversed(_)
CaptionsReversed(messages) ==
    IF messages = <<>> THEN <<>>
    ELSE IF Head(messages).media # 0
         THEN CaptionsReversed(Tail(messages)) \o <<Head(messages).text>>
         ELSE CaptionsReversed(Tail(messages))

RECURSIVE Captions(_)
Captions(messages) ==
    IF messages = <<>> THEN <<>>
    ELSE IF Head(messages).media # 0
         THEN <<Head(messages).text>> \o Captions(Tail(messages))
         ELSE Captions(Tail(messages))

\* lines 56-63: for d in dest: fwded_msgs = await event.client.send_file(...)
SendFileLoop(m, i) ==
    IF i > Len(Dest(m))
    THEN AlbumPlugins(m, 1)
    ELSE Issue([m EXCEPT !.loc.i = i],
               SendGroupCall(Dest(m)[i], MediaFiles(m.loc.ev.messages),
                             Captions(m.loc.ev.messages)), "send_file")

\* lines 46, 64: record fwded_msgs[0] if fwded_msgs else None
FirstOrNone(fwded_msgs) == IF Len(fwded_msgs) > 0 THEN fwded_msgs[1] ELSE NoneMsg

AfterForward(m, fwded_msgs) ==
    LET m1 == StoredUpdate(m, Dest(m)[m.loc.i], FirstOrNone(fwded_msgs))
    IN  IF m1.loc.exc # "none" THEN m1 ELSE ForwardLoop(m1, m.loc.i + 1)

AfterSendFile(m, fwded_msgs) ==
    LET m1 == StoredUpdate(m, Dest(m)[m.loc.i], FirstOrNone(fwded_msgs))
    IN  IF m1.loc.exc # "none" THEN m1 ELSE SendFileLoop(m1, m.loc.i + 1)

\* lines 39-64: the album branch up to its first await
AlbumEnter(m, fwd) ==
    LET m1 == StoredPut(m)
    IN  IF fwd
        THEN ForwardLoop(m1, 1)
        ELSE IF Len(MediaFiles(m.loc.ev.messages)) > 0
             THEN SendFileLoop(m1, 1)
             ELSE AlbumPlugins(m1, 1)

\* (mutant) a message of an album is handled as a single message
NewMessageEnterNoGroupCheck(m, fwd) ==
    IF m.loc.ev.chat \notin DOMAIN from_to
    THEN Finish(m)
    ELSE LET m1 == [m EXCEPT !.stored = Cleanup(@),
                             !.loc.exceeding = Len(m.stored) - KEEP_LAST_MANY]
         IN  IF m.loc.ev.kind = "album"
             THEN AlbumEnter(m1, fwd)
             ELSE Issue(m1, TransformCall(m.loc.ev.text), "transform")

\* (mutant) the storage cleanup runs before the routing check
NewMessageEnterCleanupFirst(m, fwd) ==
    LET m1 == [m EXCEPT !.stored = Cleanup(@),
                        !.loc.exceeding = Len(m.stored) - KEEP_LAST_MANY]
    IN  IF m.loc.ev.chat \notin DOMAIN from_to
        THEN Finish(m1)
        ELSE IF m.loc.ev.kind = "album"
             THEN AlbumEnter(m1, fwd)
             ELSE IF ~m.loc.ev.grouped
                  THEN Issue(m1, TransformCall(m.loc.ev.text), "transform")
                  ELSE Finish(m1)

\* lines 20-75: new_message_handler up to its first await
NewMessageEnter(m, fwd) ==
    IF m.loc.ev.chat \notin DOMAIN from_to
    THEN Finish(m)
    ELSE LET m1 == [m EXCEPT !.stored = Cleanup(@),
                             !.loc.exceeding = Len(m.stored) - KEEP_LAST_MANY]
         IN  IF m.loc.ev.kind = "album"
             THEN AlbumEnter(m1, fwd)
             ELSE IF ~m.loc.ev.grouped
                  THEN Issue(m1, TransformCall(m.loc.ev.text), "transform")
                  ELSE Finish(m1)


\* ---------------------------------------------------- edited_message_handler
\* lines 110-116: the next item of `for _, msg in fwded_msgs.items()`, up to the
\* item's first await.  The dict iterator raises RuntimeError when the dict
\* changed size since the loop began.
EditedItems(m, i) ==
    LET fwded_msgs == m.heap[m.loc.ref]
    IN  IF Len(fwded_msgs) # m.loc.len0
        THEN Raise(m, "RuntimeError")
        ELSE IF i > Len(fwded_msgs)
             THEN Finish(m)
             ELSE LET msg == fwded_msgs[i][2]
                      m1 == [m EXCEPT !.loc.i = i, !.loc.msg = msg]
                  IN  IF delete_on_edit = m.loc.ev.text
                      THEN IF Truthy(msg)
                           THEN Issue(m1, DeleteCall(msg), "edit_delete")
                           ELSE Issue(m1, DeleteSourceCall, "edit_delete_source")
                      ELSE Issue(m1, TransformCall(m.loc.ev.text), "edit_plugins")

\* line 114: await message.delete()
AfterEditDelete(m) == Issue(m, DeleteSourceCall, "edit_delete_source")

\* lines 117-118, entered when `await apply_plugins(message)` returns tm
AfterEditTransform(m, tm) ==
    IF ~tm.drop /\ Truthy(m.loc.msg) /\ tm.text # ""
    THEN Issue([m EXCEPT !.loc.tm = tm], EditCall(m.loc.msg, tm.text), "edit_edit")
    ELSE EditedItems(m, m.loc.i + 1)

\* lines 121-123: for d in dest: tm = await apply_plugins(message)
FallbackLoop(m, i) ==
    IF i > Len(Dest(m))
    THEN Finish(m)
    ELSE Issue([m EXCEPT !.loc.i = i], TransformCall(m.loc.ev.text), "fallback_plugins")

\* lines 124-125: if tm: await send_message(d, tm)
AfterFallbackTransform(m, tm) ==
    IF ~tm.drop
    THEN Issue([m EXCEPT !.loc.tm = tm], SendCall(Dest(m)[m.loc.i], tm), "fallback_send")
    ELSE FallbackLoop(m, m.loc.i + 1)

\* (mutant) the fallback send creates a record for the message
EditedEnterRecords(m) ==
    IF m.loc.ev.chat \notin DOMAIN from_to
    THEN Finish(m)
    ELSE IF FoundTruthy(m, Uid(m))
         THEN EditedItems([m EXCEPT !.loc.ref = Uid(m),
                                    !.loc.len0 = Len(m.heap[Uid(m)])], 1)
         ELSE FallbackLoop(StoredPut(m), 1)

\* lines 96-123: edited_message_handler up to its first await
EditedEnter(m) ==
    IF m.loc.ev.chat \notin DOMAIN from_to
    THEN Finish(m)
    ELSE IF FoundTruthy(m, Uid(m))
         THEN EditedItems([m EXCEPT !.loc.ref = Uid(m),
                                    !.loc.len0 = Len(m.heap[Uid(m)])], 1)
         ELSE FallbackLoop(m, 1)

\* --------------------------------------------------- deleted_message_handler
\* lines 139-141: for _, msg in fwded_msgs.items(): if msg: await msg.delete()
RECURSIVE DeletedItems(_, _)
DeletedItems(m, i) ==
    LET fwded_msgs == m.heap[m.loc.ref]
    IN  IF Len(fwded_msgs) # m.loc.len0
        THEN Raise(m, "RuntimeError")
        ELSE IF i > Len(fwded_msgs)
             THEN Finish(m)
             ELSE LET msg == fwded_msgs[i][2]
                  IN  IF Truthy(msg)
                      THEN Issue([m EXCEPT !.loc.i = i, !.loc.msg = msg],
                                 DeleteCall(msg), "delete_delete")
                      ELSE DeletedItems(m, i + 1)

\* (mutant) the handler takes the record out of the store
DeletedEnterRemoves(m) ==
    IF m.loc.ev.chat \notin DOMAIN from_to
    THEN Finish(m)
    ELSE IF FoundTruthy(m, Uid(m))
         THEN DeletedItems([m EXCEPT !.loc.ref = Uid(m),
                                     !.loc.len0 = Len(m.heap[Uid(m)]),
                                     !.stored = SelectSeq(@, LAMBDA k : k # Uid(m))], 1)
         ELSE Finish(m)

\* lines 128-141: deleted_message_handler up to its first await
DeletedEnter(m) ==
    IF m.loc.ev.chat \notin DOMAIN from_to
    THEN Finish(m)
    ELSE IF FoundTruthy(m, Uid(m))
         THEN DeletedItems([m EXCEPT !.loc.ref = Uid(m),
                                     !.loc.len0 = Len(m.heap[Uid(m)])], 1)
         ELSE Finish(m)


\* ------------------------------------------------------------- the actions
Init ==
    /\ stored = <<>>
    /\ heap = <<>>
    /\ h = [p \in Slots |-> Idle]
    /\ nextId = 1
    /\ show_forwarded_from \in BOOLEAN
    /\ sequential_updates = FALSE
    /\ history = FALSE

\* the same session with the client created with sequential_updates=True
InitSeq ==
    /\ stored = <<>>
    /\ heap = <<>>
    /\ h = [p \in Slots |-> Idle]
    /\ nextId = 1
    /\ show_forwarded_from \in BOOLEAN
    /\ sequential_updates = TRUE
    /\ history = TRUE

\* A session with interleaved dispatch, taken up when every message but the
\* last has arrived and the latest of them has just been mirrored to both
\* destinations; what each invocation did is kept.
InitRace ==
    /\ stored = <<EventUid("s1", MaxMsgs - 1)>>
    /\ heap = [k \in {EventUid("s1", MaxMsgs - 1)} |->
                 [n \in 1..2 |-> <<from_to["s1"][n],
                                   Handle(from_to["s1"][n], MaxMsgs - 1)>>]]
    /\ h = [p \in Slots |-> Idle]
    /\ nextId = MaxMsgs
    /\ show_forwarded_from \in BOOLEAN
    /\ sequential_updates = FALSE
    /\ history = TRUE

Running(p) == h[p].pc \notin {"idle", "done"}

\* the record objects still reachable: those in the store and those a suspended
\* handler holds a reference to
Live(s, hh) == ({s[n] : n \in 1..Len(s)} \cup {hh[p].ref : p \in Slots}) \ {NoKey}

\* The calls an invocation issued, and the locals of one that has returned, are
\* history kept for the claims about a single handler's calls; the code never
\* reads it.  Nor does a suspended handler read tm again but to pass it to the
\* next call (line 86 sets its reply_to anew): where no history is kept tm goes
\* with the calls.
Observe(loc) ==
    IF history
    THEN loc
    ELSE IF loc.pc = "done"
         THEN [Idle EXCEPT !.pc = "done", !.exceeding = loc.exceeding]
         ELSE [loc EXCEPT !.calls = <<>>, !.tm = NoTm]

\* the handler in slot p has run from machine state M to m
Commit(p, m) ==
    LET hh == [h EXCEPT ![p] = Observe(m.loc)]
    IN  /\ stored' = m.stored
        /\ h' = hh
        /\ heap' = [k \in Live(m.stored, hh) |-> m.heap[k]]

M(p) == [stored |-> stored, heap |-> heap, loc |-> h[p]]

\* a new handler invocation, with event ev
Start(p, kind, ev) ==
    [stored |-> stored, heap |-> heap,
     loc |-> [Idle EXCEPT !.kind = kind, !.ev = ev, !.pc = "start"]]

\* The dispatcher starts a handler in the first free slot, once it is done with
\* the handlers that have returned; with sequential updates only once every
\* earlier handler has returned.
CanDispatch(p) ==
    /\ h[p].pc = "idle"
    /\ \A q \in Slots : q < p => h[q].pc # "idle"
    /\ \A q \in Slots : h[q].pc # "done"
    /\ sequential_updates => \A q \in Slots : h[q].pc = "idle"

\* The id of a new message or album of the routed chat is fresh.  The messages
\* of an album arrive as new-message events before the album does: such an
\* event (grouped) carries the id its album will, and takes none.  Nothing is
\* kept under an id of the unrouted chat.
NewId(chat) == IF chat \in DOMAIN from_to THEN nextId ELSE 1
TakeId(chat, grouped) ==
    LET fresh == chat \in DOMAIN from_to /\ ~grouped
    IN  /\ fresh => nextId <= MaxMsgs
        /\ nextId' = IF fresh THEN nextId + 1 ELSE nextId

\* events.NewMessage -> new_message_handler
NewMessage(p) ==
    /\ CanDispatch(p)
    /\ \E chat \in Chats, grouped \in BOOLEAN, reply_to \in 0..MaxMsgs :
          /\ reply_to < NewId(chat)
          /\ TakeId(chat, grouped)
          /\ Commit(p, NewMessageEnter(
                 Start(p, "new", [NoEvent EXCEPT !.kind = "new", !.chat = chat,
                                    !.id = NewId(chat), !.grouped = grouped,
                                    !.reply_to = reply_to, !.text = "a"]),
                 show_forwarded_from))
    /\ UNCHANGED <<show_forwarded_from, sequential_updates, history>>

\* events.Album -> new_message_handler
Album(p) ==
    /\ CanDispatch(p)
    /\ \E chat \in Chats, len \in 1..MaxAlbum :
          /\ TakeId(chat, FALSE)
          /\ Commit(p, NewMessageEnter(
                 Start(p, "album", [NoEvent EXCEPT !.kind = "album", !.chat = chat,
                                      !.id = NewId(chat), !.grouped = TRUE,
                                      !.messages = AlbumOf(len)]),
                 show_forwarded_from))
    /\ UNCHANGED <<show_forwarded_from, sequential_updates, history>>

\* the new-message handler of the message (chat, id) is suspended at an await
Overlaps(chat, id) ==
    \E q \in Slots :
        /\ h[q].kind = "new"
        /\ ~h[q].ev.grouped
        /\ h[q].pc \notin {"idle", "done"}
        /\ EventUid(h[q].ev.chat, h[q].ev.id) = EventUid(chat, id)

\* events.MessageEdited -> edited_message_handler.  `overlap` notes, where
\* history is kept, that the handler began during the message's fan-out.
Edited(p) ==
    /\ CanDispatch(p)
    /\ \E chat \in Chats, id \in 1..MaxMsgs, text \in EditTexts :
          /\ id < nextId
          /\ Commit(p, EditedEnter(
                 [Start(p, "edited", [NoEvent EXCEPT !.kind = "edited", !.chat = chat,
                                        !.id = id, !.text = text])
                    EXCEPT !.loc.overlap = history /\ Overlaps(chat, id)]))
    /\ UNCHANGED <<nextId, show_forwarded_from, sequential_updates, history>>

\* events.MessageDeleted -> deleted_message_handler
Deleted(p) ==
    /\ CanDispatch(p)
    /\ \E chat \in Chats, id \in 1..MaxMsgs :
          /\ id < nextId
          /\ Commit(p, DeletedEnter(
                 Start(p, "deleted", [NoEvent EXCEPT !.kind = "deleted", !.chat = chat,
                                        !.id = id])))
    /\ UNCHANGED <<nextId, show_forwarded_from, sequential_updates, history>>


\* A suspended handler is resumed with the outcome of the call it awaits.
\* `await apply_plugins(message)` at line 75
TransformReturns(p) ==
    /\ h[p].pc = "transform"
    /\ \E tm \in TransformResults(h[p].ev.text) :
          Commit(p, AfterTransform(Answered(M(p), tm), tm))
    /\ UNCHANGED <<nextId, show_forwarded_from, sequential_updates, history>>

\* `await send_message(d, tm)` at line 92
SendReturns(p) ==
    /\ h[p].pc = "send"
    /\ \E fwded_msg \in {Handle(Dest(M(p))[h[p].i], h[p].ev.id)} :
          Commit(p, AfterSend(Returned(M(p), fwded_msg), fwded_msg))
    /\ UNCHANGED <<nextId, show_forwarded_from, sequential_updates, history>>

\* `await send_message(d, tm)` at line 87
ReplySendReturns(p) ==
    /\ h[p].pc = "send_reply"
    /\ \E fwded_msg \in {Handle(Dest(M(p))[h[p].i], h[p].ev.id)} :
          Commit(p, AfterReplySend(Returned(M(p), fwded_msg), fwded_msg))
    /\ UNCHANGED <<nextId, show_forwarded_from, sequential_updates, history>>

\* `await event.forward_to(d)` at line 45: a list of handles, possibly empty
ForwardReturns(p) ==
    /\ h[p].pc = "forward"
    /\ \E fwded_msgs \in GroupResults(Handle(Dest(M(p))[h[p].i], h[p].ev.id)) :
          Commit(p, AfterForward(Returned(M(p), FirstOrNone(fwded_msgs)), fwded_msgs))
    /\ UNCHANGED <<nextId, show_forwarded_from, sequential_updates, history>>

\* `await event.client.send_file(...)` at line 58
SendFileReturns(p) ==
    /\ h[p].pc = "send_file"
    /\ \E fwded_msgs \in GroupResults(Handle(Dest(M(p))[h[p].i], h[p].ev.id)) :
          Commit(p, AfterSendFile(Returned(M(p), FirstOrNone(fwded_msgs)), fwded_msgs))
    /\ UNCHANGED <<nextId, show_forwarded_from, sequential_updates, history>>

\* `await apply_plugins(message)` at line 67
AlbumTransformReturns(p) ==
    /\ h[p].pc = "album_plugins"
    /\ \E tm \in TransformResults(h[p].ev.messages[h[p].j].text) :
          Commit(p, AfterAlbumTransform(Answered(M(p), tm), tm))
    /\ UNCHANGED <<nextId, show_forwarded_from, sequential_updates, history>>

\* `await fwded_msg.edit(tm.text)` at line 72
AlbumEditReturns(p) ==
    /\ h[p].pc = "album_edit"
    /\ Commit(p, AlbumEdits(M(p), h[p].i + 1))
    /\ UNCHANGED <<nextId, show_forwarded_from, sequential_updates, history>>

\* `await msg.delete()` at line 113
EditDeleteReturns(p) ==
    /\ h[p].pc = "edit_delete"
    /\ Commit(p, AfterEditDelete(M(p)))
    /\ UNCHANGED <<nextId, show_forwarded_from, sequential_updates, history>>

\* `await message.delete()` at line 114
EditDeleteSourceReturns(p) ==
    /\ h[p].pc = "edit_delete_source"
    /\ Commit(p, EditedItems(M(p), h[p].i + 1))
    /\ UNCHANGED <<nextId, show_forwarded_from, sequential_updates, history>>

\* `await apply_plugins(message)` at line 116
EditTransformReturns(p) ==
    /\ h[p].pc = "edit_plugins"
    /\ \E tm \in TransformResults(h[p].ev.text) :
          Commit(p, AfterEditTransform(Answered(M(p), tm), tm))
    /\ UNCHANGED <<nextId, show_forwarded_from, sequential_updates, history>>

\* `await msg.edit(tm.text)` at line 118
EditEditReturns(p) ==
    /\ h[p].pc = "edit_edit"
    /\ Commit(p, EditedItems(M(p), h[p].i + 1))
    /\ UNCHANGED <<nextId, show_forwarded_from, sequential_updates, history>>

\* `await apply_plugins(message)` at line 123
FallbackTransformReturns(p) ==
    /\ h[p].pc = "fallback_plugins"
    /\ \E tm \in TransformResults(h[p].ev.text) :
          Commit(p, AfterFallbackTransform(Answered(M(p), tm), tm))
    /\ UNCHANGED <<nextId, show_forwarded_from, sequential_updates, history>>

\* `await send_message(d, tm)` at line 125
FallbackSendReturns(p) ==
    /\ h[p].pc = "fallback_send"
    /\ Commit(p, FallbackLoop(M(p), h[p].i + 1))
    /\ UNCHANGED <<nextId, show_forwarded_from, sequential_updates, history>>

\* `await msg.delete()` at line 141
DeleteDeleteReturns(p) ==
    /\ h[p].pc = "delete_delete"
    /\ Commit(p, DeletedItems(M(p), h[p].i + 1))
    /\ UNCHANGED <<nextId, show_forwarded_from, sequential_updates, history>>

\* the awaits that are transport calls
TransportPcs ==
    {"send", "send_reply", "forward", "send_file", "album_edit", "edit_delete",
     "edit_delete_source", "edit_edit", "fallback_send", "delete_delete"}

\* the awaited transport call fails: the error propagates out of the handler
TransportFails(p) ==
    /\ h[p].pc \in TransportPcs
    /\ Commit(p, Raise(M(p), "TransportError"))
    /\ UNCHANGED <<nextId, show_forwarded_from, sequential_updates, history>>

\* the dispatcher is done with a handler that has returned or raised
Release(p) ==
    /\ h[p].pc = "done"
    /\ h' = [h EXCEPT ![p] = Idle]
    /\ UNCHANGED <<stored, heap, nextId, show_forwarded_from, sequential_updates, history>>

Next ==
    \E p \in Slots :
        \/ NewMessage(p)
        \/ Album(p)
        \/ Edited(p)
        \/ Deleted(p)
        \/ TransformReturns(p)
        \/ SendReturns(p)
        \/ ReplySendReturns(p)
        \/ ForwardReturns(p)
        \/ SendFileReturns(p)
        \/ AlbumTransformReturns(p)
        \/ AlbumEditReturns(p)
        \/ EditDeleteReturns(p)
        \/ EditDeleteSourceReturns(p)
        \/ EditTransformReturns(p)
        \/ EditEditReturns(p)
        \/ FallbackTransformReturns(p)
        \/ FallbackSendReturns(p)
        \/ DeleteDeleteReturns(p)
        \/ TransportFails(p)
        \/ Release(p)

\* handlers may interleave at their awaits
Spec == Init /\ [][Next]_vars
\* handlers run to completion one at a time
SpecSeq == InitSeq /\ [][Next]_vars
\* handlers may interleave, and what they did is kept
SpecRace == InitRace /\ [][Next]_vars


\* ================================================================ claims
Routed(ev) == ev.chat \in DOMAIN from_to
KeyOf(ev) == EventUid(ev.chat, ev.id)
\* the handler in slot p has returned without an exception
Returned0(p) == h[p].pc = "done" /\ h[p].exc = "none"
\* the calls of one operation, in the order issued
CallsOf(calls, op) == SelectSeq(calls, LAMBDA c : c.op = op)
\* some key enters the store in this step
Inserts == \E n \in 1..Len(stored') : ~InStore(stored, stored'[n])
\* some key leaves the store in this step
Evicts == \E n \in 1..Len(stored) : ~InStore(stored', stored[n])

\* C1: handlers running one at a time, the store holds at most KEEP_LAST_MANY
\* entries immediately after every insertion of a record.
C1_AtMostKAfterInsert ==
    [][Inserts => Len(stored') <= KEEP_LAST_MANY]_vars

\* C2: a step that evicts removes exactly one entry, the head of the store, and
\* keeps the others in their order, however far over capacity the store is; a
\* step that inserts appends, so that the head is the entry inserted earliest.
C2_EvictsOnlyTheOldest ==
    [][LET kept == IF Evicts THEN Tail(stored) ELSE stored
       IN  /\ Evicts => /\ ~InStore(stored', stored[1])
                        /\ \A n \in 2..Len(stored) : InStore(stored', stored[n])
           /\ Len(stored') >= Len(kept)
           /\ SubSeq(stored', 1, Len(kept)) = kept
           /\ Len(stored') <= Len(kept) + 1]_vars

\* an eviction has run on a store more than one entry over capacity
C2_Witness ==
    \E p \in Slots : h[p].pc = "done" /\ h[p].exceeding >= 2

\* C3: a step of a handler whose event comes from a chat that is not routed
\* leaves the store and its records as they are, and the handler returns
\* having issued no call (no Transform, no transport call).
C3_UnroutedDoesNothing ==
    [][\A p \in Slots :
         (h'[p] # h[p] /\ h'[p].kind # "idle" /\ ~Routed(h'[p].ev))
         => /\ stored' = stored
            /\ heap' = heap
            /\ h'[p].pc = "done"
            /\ h'[p].exc = "none"
            /\ h'[p].calls = <<>>]_vars

\* a handler has returned from an unrouted event with the store over capacity
C3_Witness ==
    /\ Len(stored) > KEEP_LAST_MANY
    /\ \E p \in Slots :
          /\ h[p].pc = "done"
          /\ h[p].kind \in {"new", "album", "edited", "deleted"}
          /\ ~Routed(h[p].ev)

\* C4: every Send of a reply to a message whose record is in the store carries
\* the id of the handle that record holds for the Send's own destination (none
\* if it holds no handle for it), and never the id of another destination's.
C4_ReplyTargetPerDestination ==
    \A p \in Slots :
        LET ev == h[p].ev
            key == EventUid(ev.chat, ev.reply_to)
        IN  (h[p].kind = "new" /\ Routed(ev) /\ ev.reply_to # 0 /\ InStore(stored, key))
            => \A n \in 1..Len(h[p].calls) :
                  LET c == h[p].calls[n]
                      own == RecGet(heap[key], c.dest)
                  IN  c.op = "Send"
                      => /\ c.reply_to = IF own # NoneMsg THEN own.id ELSE 0
                         /\ \A k \in 1..Len(heap[key]) :
                               (heap[key][k][1] # c.dest /\ heap[key][k][2] # NoneMsg)
                               => c.reply_to # heap[key][k][2].id

\* a reply was sent to both destinations, each with its own reply target
C4_Witness ==
    \E p \in Slots :
        /\ Returned0(p)
        /\ h[p].kind = "new"
        /\ h[p].ev.reply_to # 0
        /\ Len(CallsOf(h[p].calls, "Send")) = 2
        /\ CallsOf(h[p].calls, "Send")[1].reply_to # 0
        /\ CallsOf(h[p].calls, "Send")[2].reply_to # 0
        /\ CallsOf(h[p].calls, "Send")[1].reply_to # CallsOf(h[p].calls, "Send")[2].reply_to


\* the handles present in a record, in the record's order
RECURSIVE Present(_)
Present(rec) ==
    IF rec = <<>> THEN <<>>
    ELSE IF Head(rec)[2] # NoneMsg
         THEN <<Head(rec)[2]>> \o Present(Tail(rec))
         ELSE Present(Tail(rec))
\* the handles a sequence of Edit / Delete calls acted on
HandlesOf(calls) == [n \in 1..Len(calls) |-> calls[n].msg]

\* C5: an edited handler that has returned from a sentinel edit of a message
\* whose key has a record in the store has issued a Delete on every handle
\* present in the record and a delete of the source message, and no Edit and
\* no Send.
C5_SentinelEditRetracts ==
    \A p \in Slots :
        (/\ Returned0(p)
         /\ h[p].kind = "edited"
         /\ Routed(h[p].ev)
         /\ h[p].ev.text = delete_on_edit
         /\ InStore(stored, KeyOf(h[p].ev)))
        => /\ \A n \in 1..Len(Present(heap[KeyOf(h[p].ev)])) :
                 \E k \in 1..Len(h[p].calls) :
                    /\ h[p].calls[k].op = "Delete"
                    /\ h[p].calls[k].msg = Present(heap[KeyOf(h[p].ev)])[n]
           /\ \E k \in 1..Len(h[p].calls) : h[p].calls[k].op = "DeleteSource"
           /\ \A k \in 1..Len(h[p].calls) : h[p].calls[k].op \notin {"Edit", "Send"}

\* C6: once a sentinel edit or a deleted event of a message whose key has a
\* record in the store has been handled, the record is in the store and holds
\* no handle.
C6_HandlesAbsentAfterRetract ==
    \A p \in Slots :
        (/\ Returned0(p)
         /\ Routed(h[p].ev)
         /\ \/ h[p].kind = "deleted"
            \/ h[p].kind = "edited" /\ h[p].ev.text = delete_on_edit
         /\ InStore(stored, KeyOf(h[p].ev)))
        => Present(heap[KeyOf(h[p].ev)]) = <<>>

\* C7: a step of an edited handler for a routed message whose key has no
\* record in the store leaves the store and its records as they are; when the
\* handler returns, no Transform having dropped, it has sent each Transform's
\* result once to each destination, in routing order, and called nothing else.
C7_EditedUntrackedSendsAfresh ==
    [][\A p \in Slots :
         (/\ h'[p] # h[p]
          /\ h'[p].kind = "edited"
          /\ Routed(h'[p].ev)
          /\ ~InStore(stored, KeyOf(h'[p].ev)))
         => /\ stored' = stored
            /\ heap' = heap
            /\ (/\ h'[p].pc = "done"
                /\ h'[p].exc = "none"
                /\ \A k \in 1..Len(h'[p].calls) :
                      h'[p].calls[k].op = "Transform" => ~h'[p].calls[k].res.drop)
               => LET calls == h'[p].calls
                      dest == from_to[h'[p].ev.chat]
                  IN  /\ Len(calls) = 2 * Len(dest)
                      /\ \A n \in 1..Len(dest) :
                            /\ calls[2 * n - 1].op = "Transform"
                            /\ calls[2 * n].op = "Send"
                            /\ calls[2 * n].dest = dest[n]
                            /\ calls[2 * n].text = calls[2 * n - 1].res.text
                            /\ calls[2 * n].reply_to = 0]_vars

\* an edit of a message whose record was evicted has been sent to both destinations
C7_Witness ==
    \E p \in Slots :
        /\ Returned0(p)
        /\ h[p].kind = "edited"
        /\ Routed(h[p].ev)
        /\ ~InStore(stored, KeyOf(h[p].ev))
        /\ Len(stored) > 0
        /\ Len(CallsOf(h[p].calls, "Send")) = 2

\* C8: a step of a deleted handler leaves the store's keys as they are; when
\* the handler of a message whose key has a record in the store returns, it has
\* issued one Delete for each handle present in the record, and no other call.
C8_DeletedDeletesPresentHandles ==
    [][\A p \in Slots :
         (h'[p] # h[p] /\ h'[p].kind = "deleted" /\ Routed(h'[p].ev))
         => /\ stored' = stored
            /\ (/\ h'[p].pc = "done"
                /\ h'[p].exc = "none"
                /\ InStore(stored, KeyOf(h'[p].ev)))
               => /\ InStore(stored', KeyOf(h'[p].ev))
                  /\ \A k \in 1..Len(h'[p].calls) : h'[p].calls[k].op = "Delete"
                  /\ HandlesOf(h'[p].calls) = Present(heap'[KeyOf(h'[p].ev)])]_vars

\* a deleted event has been handled for a record with a handle present and one absent
C8_Witness ==
    \E p \in Slots :
        /\ Returned0(p)
        /\ h[p].kind = "deleted"
        /\ InStore(stored, KeyOf(h[p].ev))
        /\ Len(h[p].calls) = 1
        /\ Len(heap[KeyOf(h[p].ev)]) = 2
        /\ Len(Present(heap[KeyOf(h[p].ev)])) = 1

\* C9: an album handler that has returned, the chat routed and
\* show_forwarded_from off, has issued one grouped send per destination, in
\* routing order, each with the media of all the album's messages and their
\* captions in message order, and the record under the album's key holds for
\* each destination the first handle that destination's send returned.
C9_AlbumGroupedSendPerDestination ==
    \A p \in Slots :
        (/\ Returned0(p)
         /\ h[p].kind = "album"
         /\ Routed(h[p].ev)
         /\ ~show_forwarded_from)
        => LET sends == CallsOf(h[p].calls, "SendGroup")
               dest == from_to[h[p].ev.chat]
               messages == h[p].ev.messages
           IN  /\ Len(sends) = Len(dest)
               /\ \A k \in 1..Len(h[p].calls) : h[p].calls[k].op \notin {"Send", "Forward"}
               /\ \A n \in 1..Len(dest) :
                     /\ sends[n].dest = dest[n]
                     /\ sends[n].media = [k \in 1..Len(messages) |-> messages[k].media]
                     /\ sends[n].captions = [k \in 1..Len(messages) |-> messages[k].text]
               /\ InStore(stored, KeyOf(h[p].ev))
               /\ heap[KeyOf(h[p].ev)] = [n \in 1..Len(dest) |-> <<dest[n], sends[n].msg>>]

\* an album of MaxAlbum messages has been sent to both destinations and recorded
C9_Witness ==
    \E p \in Slots :
        /\ Returned0(p)
        /\ h[p].kind = "album"
        /\ Routed(h[p].ev)
        /\ ~show_forwarded_from
        /\ Len(h[p].ev.messages) = MaxAlbum
        /\ Len(Present(heap[KeyOf(h[p].ev)])) = 2

\* C10: a new-message handler that has returned from a routed message outside
\* any album for which Transform answered drop has issued no other call and
\* there is no record under the message's key.
C10_DropSendsNothing ==
    \A p \in Slots :
        (/\ h[p].pc = "done"
         /\ h[p].kind = "new"
         /\ Routed(h[p].ev)
         /\ ~h[p].ev.grouped
         /\ Len(h[p].calls) >= 1
         /\ h[p].calls[1].res.drop)
        => /\ Len(h[p].calls) = 1
           /\ ~InStore(stored, KeyOf(h[p].ev))

\* Transform has dropped a routed message while the store held a record
C10_Witness ==
    \E p \in Slots :
        /\ Returned0(p)
        /\ h[p].kind = "new"
        /\ Routed(h[p].ev)
        /\ ~h[p].ev.grouped
        /\ Len(h[p].calls) = 1
        /\ h[p].calls[1].res.drop
        /\ Len(stored) > 0

\* C11: an album handler that has finished, the chat routed, Transform having
\* answered drop for every message of the album, has issued no forward and no
\* send, and there is no record under the album's key.
C11_AlbumDropSendsNothing ==
    \A p \in Slots :
        LET transforms == CallsOf(h[p].calls, "Transform")
        IN  (/\ h[p].pc = "done"
             /\ h[p].kind = "album"
             /\ Routed(h[p].ev)
             /\ Len(transforms) = Len(h[p].ev.messages)
             /\ \A n \in 1..Len(transforms) : transforms[n].res.drop)
            => /\ \A k \in 1..Len(h[p].calls) :
                     h[p].calls[k].op \notin {"Forward", "SendGroup", "Send"}
               /\ ~InStore(stored, KeyOf(h[p].ev))

\* C12: a new-message handler that has returned from a routed reply outside any
\* album that Transform did not drop has sent it once to each destination, in
\* routing order, and the record under the message's key holds each send's
\* handle; where the replied-to message has no record, or a record without a
\* handle for the destination, the send carries no reply target.
C12_ReplySentToEveryDestination ==
    \A p \in Slots :
        (/\ Returned0(p)
         /\ h[p].kind = "new"
         /\ Routed(h[p].ev)
         /\ ~h[p].ev.grouped
         /\ h[p].ev.reply_to # 0
         /\ Len(h[p].calls) >= 1
         /\ ~h[p].calls[1].res.drop)
        => LET sends == CallsOf(h[p].calls, "Send")
               dest == from_to[h[p].ev.chat]
               key == EventUid(h[p].ev.chat, h[p].ev.reply_to)
           IN  /\ Len(sends) = Len(dest)
               /\ \A n \in 1..Len(dest) :
                     /\ sends[n].dest = dest[n]
                     /\ (~InStore(stored, key) \/ ~Truthy(RecGet(heap[key], dest[n])))
                        => sends[n].reply_to = 0
               /\ InStore(stored, KeyOf(h[p].ev))
               /\ heap[KeyOf(h[p].ev)] = [n \in 1..Len(dest) |-> <<dest[n], sends[n].msg>>]

\* C13: when a Send of a new single message's fan-out fails, the handler ends
\* there: it has issued no call after the failed one, the store's keys are as
\* they were, and the record under the message's key holds the handles of the
\* destinations before the failing one, in order, and nothing else.
C13_SendFailureLeavesPartialRecord ==
    [][\A p \in Slots :
         (/\ h[p].kind = "new"
          /\ h[p].pc \in {"send", "send_reply"}
          /\ h'[p].pc = "done"
          /\ h'[p].exc = "TransportError")
         => LET sends == CallsOf(h[p].calls, "Send")
                dest == from_to[h[p].ev.chat]
            IN  /\ h'[p].calls = h[p].calls
                /\ Len(sends) = h[p].i
                /\ stored' = stored
                /\ InStore(stored', KeyOf(h[p].ev))
                /\ heap'[KeyOf(h[p].ev)] =
                      [n \in 1..(h[p].i - 1) |-> <<dest[n], sends[n].msg>>]]_vars

\* the Send to the second destination has failed after the first one's was recorded
C13_Witness ==
    \E p \in Slots :
        /\ h[p].pc = "done"
        /\ h[p].exc = "TransportError"
        /\ h[p].kind = "new"
        /\ Len(CallsOf(h[p].calls, "Send")) = 2
        /\ InStore(stored, KeyOf(h[p].ev))
        /\ Len(Present(heap[KeyOf(h[p].ev)])) = 1

\* C14: a new-message handler whose routed message belongs to an album returns
\* at once having issued no call, inserted no key and changed no record; the
\* album's own handler, when it returns, has issued exactly one forward or
\* grouped send to each destination and no Send.
C14_GroupedMessageLeftToAlbum ==
    [][\A p \in Slots :
         /\ (h'[p] # h[p] /\ h'[p].kind = "new" /\ Routed(h'[p].ev) /\ h'[p].ev.grouped)
            => /\ h'[p].pc = "done"
               /\ h'[p].exc = "none"
               /\ h'[p].calls = <<>>
               /\ ~Inserts
               /\ \A k \in DOMAIN heap' : k \in DOMAIN heap /\ heap'[k] = heap[k]
         /\ (h'[p] # h[p] /\ h'[p].kind = "album" /\ Routed(h'[p].ev) /\ Returned0(p)')
            => LET calls == h'[p].calls
                   dest == from_to[h'[p].ev.chat]
               IN  /\ \A n \in 1..Len(dest) :
                         Cardinality({k \in 1..Len(calls) :
                                        /\ calls[k].op \in {"Forward", "SendGroup"}
                                        /\ calls[k].dest = dest[n]}) = 1
                   /\ \A k \in 1..Len(calls) : calls[k].op # "Send"]_vars

\* a new-message event of an album's message has been handled with records in the store
C14_Witness ==
    \E p \in Slots :
        /\ Returned0(p)
        /\ h[p].kind = "new"
        /\ Routed(h[p].ev)
        /\ h[p].ev.grouped
        /\ Len(stored) > 0

\* C15: a step of an edited handler whose text is not the sentinel, for a
\* routed message whose key has a record in the store, leaves the store's keys
\* as they are; when the handler returns, every Transform having answered a
\* text that is not empty, it has issued one Edit for each handle present in
\* the record, with the text Transform answered, and no Send and no Delete.
C15_EditedTrackedEditsEveryHandle ==
    [][\A p \in Slots :
         (/\ h'[p] # h[p]
          /\ h'[p].kind = "edited"
          /\ Routed(h'[p].ev)
          /\ h'[p].ev.text # delete_on_edit
          /\ InStore(stored, KeyOf(h'[p].ev)))
         => /\ stored' = stored
            /\ (/\ h'[p].pc = "done"
                /\ h'[p].exc = "none"
                /\ \A k \in 1..Len(h'[p].calls) :
                      h'[p].calls[k].op = "Transform"
                      => (~h'[p].calls[k].res.drop /\ h'[p].calls[k].res.text # ""))
               => LET calls == h'[p].calls
                  IN  /\ HandlesOf(CallsOf(calls, "Edit")) = Present(heap'[KeyOf(h'[p].ev)])
                      /\ \A k \in 1..Len(calls) :
                            /\ calls[k].op \in {"Transform", "Edit"}
                            /\ calls[k].op = "Edit"
                               => (k > 1 /\ calls[k - 1].op = "Transform"
                                         /\ calls[k].text = calls[k - 1].res.text)]_vars

\* C16: an edited handler for a routed message whose key has a record in the
\* store, be the record empty, has issued no Send.
C16_RecordFoundNeverSends ==
    \A p \in Slots :
        (/\ h[p].kind = "edited"
         /\ Routed(h[p].ev)
         /\ InStore(stored, KeyOf(h[p].ev)))
        => \A k \in 1..Len(h[p].calls) : h[p].calls[k].op # "Send"

\* C17: while a new-message handler is between its capacity check and eviction
\* and the insertion of its record (suspended at line 75), no step of another
\* invocation changes the store or a record, and no handler of a routed event,
\* which reads the store as it begins, is started.
C17_EvictInsertAtomic ==
    [][\A p \in Slots :
         (h[p].kind = "new" /\ h[p].pc = "transform" /\ h'[p] = h[p])
         => /\ stored' = stored
            /\ heap' = heap
            /\ \A q \in Slots :
                  (h[q].pc = "idle" /\ h'[q].pc # "idle") => ~Routed(h'[q].ev)]_vars

\* C18: while a new-message or album handler awaits a send or a forward whose
\* handle it will record, the record it created is in the store.
C18_RecordStaysWhilePopulated ==
    \A p \in Slots :
        (/\ h[p].kind \in {"new", "album"}
         /\ h[p].pc \in {"send", "send_reply", "forward", "send_file"})
        => InStore(stored, KeyOf(h[p].ev))

\* C19: handlers running one at a time, the store holds at most
\* KEEP_LAST_MANY + 1 entries in every reachable state.
C19_AtMostKPlusOne == Len(stored) <= KEEP_LAST_MANY + 1

\* a handler has evicted from a store one entry over capacity and inserted its record
C19_Witness ==
    /\ Len(stored) = KEEP_LAST_MANY + 1
    /\ \E p \in Slots :
          /\ Returned0(p)
          /\ h[p].kind \in {"new", "album"}
          /\ h[p].exceeding = 1
          /\ InStore(stored, KeyOf(h[p].ev))

\* the copies of the message that the two invocations' Sends put in destination d
CopiesIn(p, q, d) ==
    Len(SelectSeq(h[p].calls \o h[q].calls, LAMBDA c : c.op = "Send" /\ c.dest = d))
\* the edited handler q gave destination d the edited text: by a Send of its
\* own, or by an Edit of the copy there
EditedTextIn(q, d) ==
    \E k \in 1..Len(h[q].calls) :
        /\ h[q].calls[k].op \in {"Send", "Edit"}
        /\ h[q].calls[k].dest = d

\* C20: when the new-message handler of a routed message and an edited handler
\* of the same message that began during the former's fan-out have both
\* finished, no transport call having failed, no Transform having dropped and
\* the text not the sentinel, each destination holds exactly one copy of the
\* message and that copy has the edited text.
C20_EditDuringFanOutConverges ==
    \A p, q \in Slots :
        (/\ h[p].kind = "new" /\ h[p].pc = "done"
         /\ Routed(h[p].ev) /\ ~h[p].ev.grouped
         /\ h[q].kind = "edited" /\ h[q].pc = "done"
         /\ KeyOf(h[q].ev) = KeyOf(h[p].ev)
         /\ h[q].overlap
         /\ h[q].ev.text # delete_on_edit
         /\ h[p].exc # "TransportError" /\ h[q].exc # "TransportError"
         /\ \A k \in 1..Len(h[p].calls) : ~h[p].calls[k].res.drop \/ h[p].calls[k].op # "Transform"
         /\ \A k \in 1..Len(h[q].calls) : ~h[q].calls[k].res.drop \/ h[q].calls[k].op # "Transform")
        => \A n \in 1..Len(from_to[h[p].ev.chat]) :
              LET d == from_to[h[p].ev.chat][n]
              IN  /\ CopiesIn(p, q, d) = 1
                  /\ EditedTextIn(q, d)

====
